---------------------------- MODULE Spec2Model ----------------------------
(***************************************************************************)
(* snap-share backend: the event directory, the session issuer, the photo  *)
(* registrar and the HTTP boundary, as state machines over the three       *)
(* database tables (events, sessions, photos) and a clock.                 *)
(* objects is the set of keys the object store holds; calls holds the      *)
(* service calls that are between two of their statements.                 *)
(* The frontend is the auth store (authStore, persisted in authStorage),   *)
(* the API client's token (authToken), the refresh request in flight       *)
(* (refreshing), and the upload page's file list (uploadFiles) with the    *)
(* upload attempts under way (uploadAttempts).                             *)
(*                                                                         *)
(* Tables are partial functions from primary key to row.  GORM soft        *)
(* delete (a gorm.DeletedAt column) is the row field "deleted": every      *)
(* query and update built by GORM on such a model carries                  *)
(* "deleted_at IS NULL", and Delete sets the field instead of removing the *)
(* row.  Strings that the code cuts or concatenates (the Authorization     *)
(* header, object keys, public URLs) are sequences of symbols.             *)
(* Columns no operation here reads (names, descriptions, dates, owner      *)
(* e-mail, created_at/updated_at) are left out of the rows.                *)
(***************************************************************************)
EXTENDS Integers, Sequences, FiniteSets, TLC

VARIABLES events, sessions, photos, objects, calls, now, publicDomain, last,
          authStore, authToken, authStorage, refreshing, uploadFiles, uploadAttempts

clientVars == <<authStore, authToken, authStorage, refreshing, uploadFiles, uploadAttempts>>

vars == <<events, sessions, photos, objects, calls, now, publicDomain, last, clientVars>>

-----------------------------------------------------------------------------
(* Universes the inputs are drawn from. *)

EventIds == {"e1", "e2"}

Codes == {"AAAAAAAA", "BBBBBBBB"}

EventStatusActive == "active"

EventStatusInactive == "inactive"

EventStatusClosed == "closed"

Statuses == {EventStatusActive, EventStatusInactive, EventStatusClosed}

Nil == "nil"

(* generateUniqueCode: maxAttempts := 10 *)
maxAttempts == 10

(* The draws of one generateUniqueCode call: k draws of one code followed  *)
(* by draws of another, for every k and every pair of codes.               *)
DrawSeqs ==
  { [i \in 1..maxAttempts |-> IF i <= k THEN c1 ELSE c2] :
      k \in 0..maxAttempts, c1 \in Codes, c2 \in Codes }

-----------------------------------------------------------------------------
(* Event directory *)

(* The rows a GORM query on models.Event sees. *)
LiveEvents == {e \in DOMAIN events : ~events[e].deleted}

(* db.Model(&models.Event{}).Where("code = ?", codeStr).Count(&count) *)
CountByCode(code) == Cardinality({e \in LiveEvents : events[e].code = code})

RECURSIVE generateUniqueCodeFrom(_, _)
generateUniqueCodeFrom(draws, i) ==
  IF i > maxAttempts THEN [ok |-> FALSE, code |-> Nil]
  ELSE IF CountByCode(draws[i]) = 0 THEN [ok |-> TRUE, code |-> draws[i]]
  ELSE generateUniqueCodeFrom(draws, i + 1)

(* A generator that makes one draw and gives up when it collides. *)
generateUniqueCodeOneDraw(draws) ==
  IF CountByCode(draws[1]) = 0 THEN [ok |-> TRUE, code |-> draws[1]]
  ELSE [ok |-> FALSE, code |-> Nil]

generateUniqueCode(draws) == generateUniqueCodeFrom(draws, 1)

(* The insert with no unique index on code. *)
EventInsertFailsNoUniqueIndex(id, code) == id \in DOMAIN events

(* db.Create(event): the primary key and the unique index on code cover     *)
(* every row of the table, soft-deleted ones included.                      *)
EventInsertFails(id, code) ==
  \/ id \in DOMAIN events
  \/ \E e \in DOMAIN events : events[e].code = code

(* CreateEvent taking its first draw as it comes: no uniqueness query, and *)
(* a table without the unique index on code.                               *)
CreateEventUnchecked(ids, drawSeqs) ==
  \E id \in ids, draws \in drawSeqs :
    /\ id \notin DOMAIN events
    /\ events' = events @@ (id :> [code |-> draws[1],
                                    status |-> EventStatusActive,
                                    deleted |-> FALSE])
    /\ last' = [op |-> "CreateEvent", ok |-> TRUE, id |-> id, code |-> draws[1]]
    /\ UNCHANGED <<clientVars, objects, calls, sessions, photos, now, publicDomain>>

CreateEventIn(ids, drawSeqs) ==
  \E id \in ids, draws \in drawSeqs :
    LET g == generateUniqueCode(draws) IN
      /\ IF g.ok /\ ~EventInsertFails(id, g.code)
           THEN /\ events' = events @@ (id :> [code |-> g.code,
                                                 status |-> EventStatusActive,
                                                 deleted |-> FALSE])
                /\ last' = [op |-> "CreateEvent", ok |-> TRUE, id |-> id, code |-> g.code]
           ELSE /\ events' = events
                /\ last' = [op |-> "CreateEvent", ok |-> FALSE, id |-> id, code |-> g.code]
      /\ UNCHANGED <<clientVars, objects, calls, sessions, photos, now, publicDomain>>

CreateEvent == CreateEventIn(EventIds, DrawSeqs)

(* db.First(&event, eventID) *)
GetEventByID(id) ==
  IF id \in LiveEvents THEN [ok |-> TRUE, id |-> id, event |-> events[id]]
  ELSE [ok |-> FALSE, id |-> id]

(* The status filter of GetEventByCode left out. *)
GetEventByCodeAnyStatus(code) ==
  LET hit == {e \in LiveEvents : events[e].code = code} IN
    IF hit # {} THEN LET e == CHOOSE x \in hit : TRUE IN [ok |-> TRUE, id |-> e, event |-> events[e]]
    ELSE [ok |-> FALSE, id |-> Nil]

(* db.Where("code = ? AND status != ?", code, closed).First(&event) *)
GetEventByCode(code) ==
  LET hit == {e \in LiveEvents : events[e].code = code /\ events[e].status # EventStatusClosed} IN
    IF hit # {} THEN LET e == CHOOSE x \in hit : TRUE IN [ok |-> TRUE, id |-> e, event |-> events[e]]
    ELSE [ok |-> FALSE, id |-> Nil]

UpdateEvent ==
  \E id \in EventIds, st \in Statuses \cup {Nil} :
    /\ IF id \in LiveEvents
         THEN /\ events' = IF st # Nil THEN [events EXCEPT ![id].status = st] ELSE events
              /\ last' = [op |-> "UpdateEvent", ok |-> TRUE, id |-> id, status |-> st]
         ELSE /\ events' = events
              /\ last' = [op |-> "UpdateEvent", ok |-> FALSE, id |-> id, status |-> st]
    /\ UNCHANGED <<clientVars, objects, calls, sessions, photos, now, publicDomain>>

DeleteEvent ==
  \E id \in EventIds :
    /\ events' = IF id \in LiveEvents THEN [events EXCEPT ![id].deleted = TRUE] ELSE events
    /\ last' = [op |-> "DeleteEvent", ok |-> TRUE, id |-> id]
    /\ UNCHANGED <<clientVars, objects, calls, sessions, photos, now, publicDomain>>

CloseEvent ==
  \E id \in EventIds :
    /\ events' = IF id \in LiveEvents THEN [events EXCEPT ![id].status = EventStatusClosed] ELSE events
    /\ last' = [op |-> "CloseEvent", ok |-> TRUE, id |-> id]
    /\ UNCHANGED <<clientVars, objects, calls, sessions, photos, now, publicDomain>>

-----------------------------------------------------------------------------
(* Session issuer *)

GuestNames == {"Alice"}

(* time.Now() counts hours; CreateSession and RefreshSession add 24 * time.Hour *)
SessionTTL == 24

(* hex.EncodeToString *)
hextable == <<"0","1","2","3","4","5","6","7","8","9","a","b","c","d","e","f">>

RECURSIVE EncodeToString(_)
EncodeToString(bytes) ==
  IF bytes = <<>> THEN <<>>
  ELSE <<hextable[(Head(bytes) \div 16) + 1], hextable[(Head(bytes) % 16) + 1]>>
         \o EncodeToString(Tail(bytes))

(* bytes := make([]byte, 32); rand.Read(bytes) *)
TokenLen == 32

RandomBytes == {[i \in 1..TokenLen |-> b] : b \in {10, 171}}

generateSessionToken(bytes) == EncodeToString(bytes)

Tokens == {generateSessionToken(b) : b \in RandomBytes}

(* The rows a GORM query on models.Session sees.  The table is keyed by    *)
(* session_token, which the schema makes unique over all rows, as it does  *)
(* the primary key.                                                        *)
LiveSessions == {t \in DOMAIN sessions : ~sessions[t].deleted}

(* The event lookup without its status condition. *)
ActiveEventAnyStatus(eventID) == eventID \in LiveEvents

(* db.Where("id = ? AND status = ?", eventID, active).First(&event) *)
ActiveEvent(eventID) ==
  eventID \in LiveEvents /\ events[eventID].status = EventStatusActive

CreateSessionOK(eventID, token) ==
  /\ ActiveEvent(eventID)
  /\ token \notin DOMAIN sessions

CreateSession ==
  \E eventID \in EventIds, guestName \in GuestNames, bytes \in RandomBytes :
    LET token == generateSessionToken(bytes) IN
      /\ IF CreateSessionOK(eventID, token)
           THEN /\ sessions' = sessions @@ (token :> [event |-> eventID,
                                                       guest |-> guestName,
                                                       expires |-> now + SessionTTL,
                                                       deleted |-> FALSE])
                /\ last' = [op |-> "CreateSession", ok |-> TRUE, token |-> token, event |-> eventID]
           ELSE /\ sessions' = sessions
                /\ last' = [op |-> "CreateSession", ok |-> FALSE, token |-> token, event |-> eventID]
      /\ UNCHANGED <<clientVars, objects, calls, events, photos, now, publicDomain>>

(* db.Preload("Event"): the event of the session, or the zero Event when   *)
(* the events query finds no live row.                                     *)
PreloadEventStatus(eventID) ==
  IF eventID \in LiveEvents THEN events[eventID].status ELSE ""

(* The expiry filter with >= for >. *)
SessionFoundInclusive(token) ==
  token \in LiveSessions /\ sessions[token].expires >= now

(* Where("session_token = ? AND expires_at > ?", token, time.Now()) *)
SessionFound(token) ==
  token \in LiveSessions /\ sessions[token].expires > now

(* ValidateSession without the check of the event's status. *)
ValidateSessionNoEventCheck(token) ==
  IF ~SessionFound(token) THEN [ok |-> FALSE, err |-> "session not found or expired"]
  ELSE [ok |-> TRUE, token |-> token, session |-> sessions[token]]

ValidateSession(token) ==
  IF ~SessionFound(token) THEN [ok |-> FALSE, err |-> "session not found or expired"]
  ELSE IF PreloadEventStatus(sessions[token].event) # EventStatusActive
    THEN [ok |-> FALSE, err |-> "event is no longer active"]
  ELSE [ok |-> TRUE, token |-> token, session |-> sessions[token]]

(* newExpiresAt := time.Now().Add(24 * time.Hour) *)
newExpiresAt == now + SessionTTL

(* RefreshSession adding the 24 hours to the expiry the session had. *)
RefreshSessionAdditive ==
  \E token \in Tokens :
    /\ IF ValidateSession(token).ok
         THEN /\ sessions' = [sessions EXCEPT ![token].expires = @ + SessionTTL]
              /\ last' = [op |-> "RefreshSession", ok |-> TRUE, token |-> token,
                          expires |-> sessions[token].expires + SessionTTL,
                          old |-> sessions[token].expires]
         ELSE /\ sessions' = sessions
              /\ last' = [op |-> "RefreshSession", ok |-> FALSE, token |-> token,
                          expires |-> 0, old |-> 0]
    /\ UNCHANGED <<clientVars, objects, calls, events, photos, now, publicDomain>>

(* last.old is the expiry the session had when the call was made. *)
RefreshSession ==
  \E token \in Tokens :
    /\ IF ValidateSession(token).ok
         THEN /\ sessions' = [sessions EXCEPT ![token].expires = newExpiresAt]
              /\ last' = [op |-> "RefreshSession", ok |-> TRUE, token |-> token,
                          expires |-> newExpiresAt, old |-> sessions[token].expires]
         ELSE /\ sessions' = sessions
              /\ last' = [op |-> "RefreshSession", ok |-> FALSE, token |-> token,
                          expires |-> 0, old |-> 0]
    /\ UNCHANGED <<clientVars, objects, calls, events, photos, now, publicDomain>>

(* The delete matching soft-deleted rows too. *)
RevokeRowsAffectedUnscoped(token) == Cardinality({t \in DOMAIN sessions : t = token})

(* result := db.Where("session_token = ?", token).Delete(&models.Session{}) *)
RevokeRowsAffected(token) == Cardinality({t \in LiveSessions : t = token})

RevokeSession ==
  \E token \in Tokens :
    /\ IF RevokeRowsAffected(token) # 0
         THEN /\ sessions' = [sessions EXCEPT ![token].deleted = TRUE]
              /\ last' = [op |-> "RevokeSession", ok |-> TRUE, token |-> token]
         ELSE /\ sessions' = sessions
              /\ last' = [op |-> "RevokeSession", ok |-> FALSE, token |-> token]
    /\ UNCHANGED <<clientVars, objects, calls, events, photos, now, publicDomain>>

(* Where("event_id = ? AND expires_at > ?", eventID, time.Now()) *)
GetSessionsByEvent(eventID) ==
  {t \in LiveSessions : sessions[t].event = eventID /\ sessions[t].expires > now}

(* A cleanup that also deletes sessions with half a lifetime left. *)
CleanupExpiredSessionsEarly ==
  /\ sessions' = [t \in DOMAIN sessions |->
                    IF t \in LiveSessions /\ sessions[t].expires <= now + 12
                      THEN [sessions[t] EXCEPT !.deleted = TRUE]
                      ELSE sessions[t]]
  /\ last' = [op |-> "CleanupExpiredSessions", ok |-> TRUE]
  /\ UNCHANGED <<clientVars, objects, calls, events, photos, now, publicDomain>>

(* db.Where("expires_at <= ?", time.Now()).Delete(&models.Session{}) *)
CleanupExpiredSessions ==
  /\ sessions' = [t \in DOMAIN sessions |->
                    IF t \in LiveSessions /\ sessions[t].expires <= now
                      THEN [sessions[t] EXCEPT !.deleted = TRUE]
                      ELSE sessions[t]]
  /\ last' = [op |-> "CleanupExpiredSessions", ok |-> TRUE]
  /\ UNCHANGED <<clientVars, objects, calls, events, photos, now, publicDomain>>

(* The clock: it advances in steps of half a session lifetime, so that a   *)
(* session is seen before, at and after its expiry.                        *)
MaxTicks == 3

TickSteps == {12}

Tick ==
  \E d \in TickSteps :
    /\ now + d <= MaxTicks * 12
    /\ now' = now + d
    /\ last' = [op |-> "Tick", ok |-> TRUE]
    /\ UNCHANGED <<clientVars, objects, calls, events, sessions, photos, publicDomain>>

-----------------------------------------------------------------------------
(* Object store (infra/r2) and photo registrar *)

PhotoIds == {"p1", "p2"}

(* Content types, cut where strings.HasPrefix looks. *)
ContentTypes == {<<"image/png">>, <<"image/png", "; q=1">>, <<"application/pdf">>}

(* strings.HasPrefix *)
HasPrefix(str, prefix) ==
  Len(str) >= Len(prefix) /\ SubSeq(str, 1, Len(prefix)) = prefix

(* strings.TrimPrefix *)
TrimPrefix(str, prefix) ==
  IF HasPrefix(str, prefix) THEN SubSeq(str, Len(prefix) + 1, Len(str)) ELSE str

(* strings.TrimSuffix *)
TrimSuffix(str, suffix) ==
  IF Len(str) >= Len(suffix)
       /\ SubSeq(str, Len(str) - Len(suffix) + 1, Len(str)) = suffix
    THEN SubSeq(str, 1, Len(str) - Len(suffix))
    ELSE str

(* An extension function without the content-type table. *)
getExtensionDefaultOnly(contentType) == ".jpg"

getExtensionFromContentType(contentType) ==
  CASE HasPrefix(contentType, <<"image/jpeg">>) -> ".jpg"
    [] HasPrefix(contentType, <<"image/png">>) -> ".png"
    [] HasPrefix(contentType, <<"image/gif">>) -> ".gif"
    [] HasPrefix(contentType, <<"image/webp">>) -> ".webp"
    [] HasPrefix(contentType, <<"image/heic">>) -> ".heic"
    [] HasPrefix(contentType, <<"image/heif">>) -> ".heif"
    [] OTHER -> ".jpg"

(* fmt.Sprintf("events/%s/photos/%s%s", eventID, photoID, ext) *)
ObjectKey(eventID, photoID, ext) ==
  <<"events", "/", eventID, "/", "photos", "/", photoID, ext>>

(* The public URL without the object key. *)
GetPublicURLDomainOnly(key) == TrimSuffix(publicDomain, <<"/">>) \o <<"/">>

(* R2Service.GetPublicURL *)
GetPublicURL(key) ==
  TrimSuffix(publicDomain, <<"/">>) \o <<"/">> \o TrimPrefix(key, <<"/">>)

(* The rows a GORM query on models.Photo sees. *)
LivePhotos == {p \in DOMAIN photos : ~photos[p].deleted}

(* An upload check that also requires the event to be active. *)
GenerateUploadURLOKActiveOnly(eventID, photoID, signed) ==
  /\ eventID \in LiveEvents /\ events[eventID].status = EventStatusActive
  /\ signed
  /\ photoID \notin DOMAIN photos

(* signed: whether the presigner returned a URL.  The insert fails on a    *)
(* primary key already in the table.                                       *)
GenerateUploadURLOK(eventID, photoID, signed) ==
  /\ eventID \in LiveEvents
  /\ signed
  /\ photoID \notin DOMAIN photos

GenerateUploadURLIn(eventIds, uploaders, contentTypes) ==
  \E eventID \in eventIds, uploaderName \in uploaders, contentType \in contentTypes,
     photoID \in PhotoIds, signed \in BOOLEAN :
    LET objectKey == ObjectKey(eventID, photoID, getExtensionFromContentType(contentType)) IN
      /\ IF GenerateUploadURLOK(eventID, photoID, signed)
           THEN /\ photos' = photos @@ (photoID :> [event |-> eventID,
                                                     uploader |-> uploaderName,
                                                     key |-> objectKey,
                                                     mime |-> contentType,
                                                     size |-> 0,
                                                     deleted |-> FALSE])
                /\ last' = [op |-> "GenerateUploadURL", ok |-> TRUE, event |-> eventID,
                            uploader |-> uploaderName, id |-> photoID, key |-> objectKey]
           ELSE /\ photos' = photos
                /\ last' = [op |-> "GenerateUploadURL", ok |-> FALSE, event |-> eventID,
                            uploader |-> uploaderName, id |-> photoID, key |-> objectKey]
      /\ UNCHANGED <<clientVars, objects, calls, events, sessions, now, publicDomain>>

GenerateUploadURL == GenerateUploadURLIn(EventIds, GuestNames, ContentTypes)

(* A recognised type carrying a parameter, and an unrecognised one. *)
TwoContentTypes == {<<"image/png", "; q=1">>, <<"application/pdf">>}

(* db.Model(&models.Photo{}).Where("id = ?", photoID).Update("size", n):   *)
(* the error of an update that matches no row is nil.                      *)
(* An update that writes the size of an unconfirmed row only. *)
UpdateSizeOnce(photoID, fileSize) ==
  IF photoID \in LivePhotos /\ photos[photoID].size = 0
    THEN [photos EXCEPT ![photoID].size = fileSize]
    ELSE photos

UpdateSize(photoID, fileSize) ==
  IF photoID \in LivePhotos THEN [photos EXCEPT ![photoID].size = fileSize] ELSE photos

ConfirmUploadIn(photoIds, sizes) ==
  \E photoID \in photoIds, fileSize \in sizes :
    /\ photos' = UpdateSize(photoID, fileSize)
    /\ last' = [op |-> "ConfirmUpload", ok |-> TRUE, id |-> photoID, size |-> fileSize]
    /\ UNCHANGED <<clientVars, objects, calls, events, sessions, now, publicDomain>>

FileSizes == {204800}

ConfirmUpload == ConfirmUploadIn(PhotoIds, FileSizes)

(* The photos of an event as returned: the object key replaced by the      *)
(* public URL.  (The order, created_at DESC, is not modelled.)             *)
PhotosByEvent(table, eventID) ==
  { [id |-> p, event |-> table[p].event, uploader |-> table[p].uploader,
     size |-> table[p].size, mime |-> table[p].mime,
     key |-> GetPublicURL(table[p].key)] :
      p \in {q \in DOMAIN table : ~table[q].deleted /\ table[q].event = eventID} }

GetPhotosByEvent(eventID) == PhotosByEvent(photos, eventID)

(* signed: whether the presigner returned a delete URL. *)
DeletePhoto ==
  \E photoID \in PhotoIds, userCanDelete \in BOOLEAN, signed \in BOOLEAN :
    LET call == [op |-> "DeletePhoto", id |-> photoID, can |-> userCanDelete]
        fail(err) == /\ photos' = photos
                     /\ last' = call @@ [ok |-> FALSE, err |-> err]
    IN
      /\ IF photoID \notin LivePhotos THEN fail("photo not found")
         ELSE IF ~userCanDelete THEN fail("unauthorized to delete photo")
         ELSE IF ~signed THEN fail("failed to generate delete URL")
         ELSE /\ photos' = [photos EXCEPT ![photoID].deleted = TRUE]
              /\ last' = call @@ [ok |-> TRUE, err |-> ""]
      /\ UNCHANGED <<clientVars, objects, calls, events, sessions, now, publicDomain>>

(* The lists of photo IDs a bulk request carries, duplicates included. *)
MaxBulk == 2

PhotoIdLists == UNION {[1..n -> PhotoIds] : n \in 0..MaxBulk}

Range(f) == {f[i] : i \in DOMAIN f}

(* The count without its event condition. *)
CountInAnyEvent(photoIDs, eventID) ==
  Cardinality({p \in LivePhotos : p \in Range(photoIDs)})

(* Where("id IN ? AND event_id = ?", photoIDs, eventID).Count(&count) *)
CountInEvent(photoIDs, eventID) ==
  Cardinality({p \in LivePhotos : p \in Range(photoIDs) /\ photos[p].event = eventID})

DeleteBulkPhotos ==
  \E photoIDs \in PhotoIdLists, eventID \in EventIds :
    /\ IF Len(photoIDs) = 0
         THEN /\ photos' = photos
              /\ last' = [op |-> "DeleteBulkPhotos", ok |-> TRUE, ids |-> photoIDs, event |-> eventID]
         ELSE IF CountInEvent(photoIDs, eventID) # Len(photoIDs)
           THEN /\ photos' = photos
                /\ last' = [op |-> "DeleteBulkPhotos", ok |-> FALSE, ids |-> photoIDs, event |-> eventID]
           ELSE /\ photos' = [p \in DOMAIN photos |->
                                IF p \in LivePhotos /\ p \in Range(photoIDs)
                                  THEN [photos[p] EXCEPT !.deleted = TRUE]
                                  ELSE photos[p]]
                /\ last' = [op |-> "DeleteBulkPhotos", ok |-> TRUE, ids |-> photoIDs, event |-> eventID]
    /\ UNCHANGED <<clientVars, objects, calls, events, sessions, now, publicDomain>>

-----------------------------------------------------------------------------
(* HTTP boundary *)

(* The values of the request fields: a code of eight characters and one of *)
(* four, a guest name and the empty one, an event ID and a string that is  *)
(* no UUID, a content type and the empty one, a size and zero.             *)
RequestCodes == {"AAAAAAAA", "AAAA"}

RequestGuestNames == GuestNames \cup {""}

RequestEventIds == {"e1", "not-a-uuid"}

RequestPhotoIds == {"p1", "not-a-uuid"}

RequestContentTypes == {<<"image/png">>, <<>>}

RequestFileSizes == FileSizes \cup {0}

(* uuid.Parse *)
IsUUID(str) == str \in EventIds \cup PhotoIds

StatusOK == 200

StatusCreated == 201

StatusBadRequest == 400

StatusUnauthorized == 401

StatusInternalServerError == 500

(* uuid.New() in the session handler: the ID of an event or of none. *)
NewUUIDs == {"e1", "e9"}

(* validate:"required,len=8" and validate:"required,min=1,max=100" *)
CreateSessionRequestValid(eventCode, guestName) ==
  /\ Len(eventCode) = 8
  /\ Len(guestName) >= 1
  /\ Len(guestName) <= 100

(* POST /api/sessions: the event ID handed to the service is uuid.New(),   *)
(* the event code of the request is validated and then not used.           *)
SessionHandlerCreateSession ==
  \E eventCode \in RequestCodes, guestName \in RequestGuestNames,
     eventID \in NewUUIDs, bytes \in RandomBytes :
    LET token == generateSessionToken(bytes)
        req   == [op |-> "POST /api/sessions", code |-> eventCode, guest |-> guestName,
                  event |-> eventID, token |-> token]
    IN
      /\ IF ~CreateSessionRequestValid(eventCode, guestName)
           THEN /\ sessions' = sessions
                /\ last' = req @@ [ok |-> FALSE, status |-> StatusBadRequest]
         ELSE IF ~CreateSessionOK(eventID, token)
           THEN /\ sessions' = sessions
                /\ last' = req @@ [ok |-> FALSE, status |-> StatusInternalServerError]
         ELSE /\ sessions' = sessions @@ (token :> [event |-> eventID,
                                                     guest |-> guestName,
                                                     expires |-> now + SessionTTL,
                                                     deleted |-> FALSE])
              /\ last' = req @@ [ok |-> TRUE, status |-> StatusCreated]
      /\ UNCHANGED <<clientVars, objects, calls, events, photos, now, publicDomain>>

(* The session_token fields of the requests: a token or the empty string. *)
RequestTokens == Tokens \cup {<<>>}

(* POST /api/sessions/refresh: validate:"required", then the service;      *)
(* every error of the service is answered 500.                             *)
SessionHandlerRefreshSession ==
  \E token \in RequestTokens :
    LET req == [op |-> "POST /api/sessions/refresh", token |-> token] IN
      /\ IF token = <<>>
           THEN /\ sessions' = sessions
                /\ last' = req @@ [ok |-> FALSE, status |-> StatusBadRequest]
         ELSE IF ~ValidateSession(token).ok
           THEN /\ sessions' = sessions
                /\ last' = req @@ [ok |-> FALSE, status |-> StatusInternalServerError]
         ELSE /\ sessions' = [sessions EXCEPT ![token].expires = newExpiresAt]
              /\ last' = req @@ [ok |-> TRUE, status |-> StatusOK]
      /\ UNCHANGED <<clientVars, objects, calls, events, photos, now, publicDomain>>

(* DELETE /api/sessions *)
SessionHandlerRevokeSession ==
  \E token \in RequestTokens :
    LET req == [op |-> "DELETE /api/sessions", token |-> token] IN
      /\ IF token = <<>>
           THEN /\ sessions' = sessions
                /\ last' = req @@ [ok |-> FALSE, status |-> StatusBadRequest]
         ELSE IF RevokeRowsAffected(token) = 0
           THEN /\ sessions' = sessions
                /\ last' = req @@ [ok |-> FALSE, status |-> StatusInternalServerError]
         ELSE /\ sessions' = [sessions EXCEPT ![token].deleted = TRUE]
              /\ last' = req @@ [ok |-> TRUE, status |-> StatusOK]
      /\ UNCHANGED <<clientVars, objects, calls, events, photos, now, publicDomain>>

bearerPrefix == <<"B", "e", "a", "r", "e", "r", " ">>

(* The Authorization headers of the requests: none, one shorter than the   *)
(* prefix, the prefix alone, and each token behind "Bearer " and behind    *)
(* "Digest ".                                                              *)
AuthHeaders ==
  {<<>>, <<"B", "e", "a", "r">>, bearerPrefix}
    \cup {bearerPrefix \o t : t \in Tokens}
    \cup {<<"D", "i", "g", "e", "s", "t", " ">> \o t : t \in Tokens}

(* The middleware with the comparison of the prefix left out. *)
AuthMiddlewareNoPrefixCheck(authHeader) ==
  IF authHeader = <<>>
    THEN [ok |-> FALSE, status |-> StatusUnauthorized, uploader_name |-> Nil, event_id |-> Nil]
  ELSE IF Len(authHeader) < Len(bearerPrefix)
    THEN [ok |-> FALSE, status |-> StatusUnauthorized, uploader_name |-> Nil, event_id |-> Nil]
  ELSE LET token   == SubSeq(authHeader, Len(bearerPrefix) + 1, Len(authHeader))
           session == ValidateSession(token)
       IN IF ~session.ok
            THEN [ok |-> FALSE, status |-> StatusUnauthorized, uploader_name |-> Nil, event_id |-> Nil]
            ELSE [ok |-> TRUE, status |-> StatusOK,
                  uploader_name |-> session.session.guest,
                  event_id |-> session.session.event]

(* The middleware of the /api/photos group: what it answers itself         *)
(* (ok FALSE) or what it sets in the context before calling next.          *)
AuthMiddleware(authHeader) ==
  IF authHeader = <<>>
    THEN [ok |-> FALSE, status |-> StatusUnauthorized, uploader_name |-> Nil, event_id |-> Nil]
  ELSE IF \/ Len(authHeader) < Len(bearerPrefix)
          \/ SubSeq(authHeader, 1, Len(bearerPrefix)) # bearerPrefix
    THEN [ok |-> FALSE, status |-> StatusUnauthorized, uploader_name |-> Nil, event_id |-> Nil]
  ELSE LET token   == SubSeq(authHeader, Len(bearerPrefix) + 1, Len(authHeader))
           session == ValidateSession(token)
       IN IF ~session.ok
            THEN [ok |-> FALSE, status |-> StatusUnauthorized, uploader_name |-> Nil, event_id |-> Nil]
            ELSE [ok |-> TRUE, status |-> StatusOK,
                  uploader_name |-> session.session.guest,
                  event_id |-> session.session.event]

(* What a request to the photo group leaves in last: handled says whether  *)
(* next(c) was called.                                                     *)
PhotoRequest(route, authHeader, c, handled, status) ==
  [op |-> "photoAPI", route |-> route, header |-> authHeader, handled |-> handled,
   status |-> status, uploader_name |-> c.uploader_name, event_id |-> c.event_id]

(* POST /api/photos/upload-url: the event ID comes from the body, the      *)
(* uploader from the context.                                              *)
PhotoHandlerGenerateUploadURLIn(eventIDStrs) ==
  \E authHeader \in AuthHeaders, eventIDStr \in eventIDStrs,
     contentType \in RequestContentTypes, photoID \in {"p1"}, signed \in BOOLEAN :
    LET c         == AuthMiddleware(authHeader)
        objectKey == ObjectKey(eventIDStr, photoID, getExtensionFromContentType(contentType))
        route     == "upload-url"
        body      == [body_event |-> eventIDStr]
    IN
      /\ IF ~c.ok
           THEN /\ photos' = photos
                /\ last' = PhotoRequest(route, authHeader, c, FALSE, c.status) @@ body
         ELSE IF contentType = <<>> \/ ~IsUUID(eventIDStr)
           THEN /\ photos' = photos
                /\ last' = PhotoRequest(route, authHeader, c, TRUE, StatusBadRequest) @@ body
         ELSE IF ~(eventIDStr \in LiveEvents /\ signed /\ photoID \notin DOMAIN photos)
           THEN /\ photos' = photos
                /\ last' = PhotoRequest(route, authHeader, c, TRUE, StatusInternalServerError) @@ body
         ELSE /\ photos' = photos @@ (photoID :> [event |-> eventIDStr,
                                                   uploader |-> c.uploader_name,
                                                   key |-> objectKey,
                                                   mime |-> contentType,
                                                   size |-> 0,
                                                   deleted |-> FALSE])
              /\ last' = PhotoRequest(route, authHeader, c, TRUE, StatusOK) @@ body
      /\ UNCHANGED <<clientVars, objects, calls, events, sessions, now, publicDomain>>

PhotoHandlerGenerateUploadURL == PhotoHandlerGenerateUploadURLIn(RequestEventIds)

(* POST /api/photos/confirm/:id *)
PhotoHandlerConfirmUpload ==
  \E authHeader \in AuthHeaders, photoIDStr \in RequestPhotoIds, fileSize \in RequestFileSizes :
    LET c     == AuthMiddleware(authHeader)
        route == "confirm"
    IN
      /\ IF ~c.ok
           THEN /\ photos' = photos
                /\ last' = PhotoRequest(route, authHeader, c, FALSE, c.status)
         ELSE IF ~IsUUID(photoIDStr) \/ fileSize < 1
           THEN /\ photos' = photos
                /\ last' = PhotoRequest(route, authHeader, c, TRUE, StatusBadRequest)
         ELSE /\ photos' = UpdateSize(photoIDStr, fileSize)
              /\ last' = PhotoRequest(route, authHeader, c, TRUE, StatusOK)
      /\ UNCHANGED <<clientVars, objects, calls, events, sessions, now, publicDomain>>

-----------------------------------------------------------------------------
(* Bulk operations of the photo registrar *)

(* tx.Model(&models.Photo{}).Where("id = ?", photoID).Update("size", size) *)
(* on a given state of the table.                                          *)
UpdateSizeIn(table, photoID, fileSize) ==
  IF photoID \in DOMAIN table /\ ~table[photoID].deleted
    THEN [table EXCEPT ![photoID].size = fileSize]
    ELSE table

(* The confirmations maps of the requests: photo ID strings to sizes. *)
ConfirmationKeys == {"p1", "p2", "not-a-uuid"}

ConfirmationSizes == {204800, 512}

ConfirmationMaps == UNION {[ks -> ConfirmationSizes] : ks \in SUBSET ConfirmationKeys}

(* The orders in which a range over a Go map may visit its keys. *)
Orders(keys) == {o \in [1..Cardinality(keys) -> keys] : {o[i] : i \in DOMAIN o} = keys}

(* The table after the first n updates of the loop. *)
RECURSIVE UpdatesApplied(_, _, _, _)
UpdatesApplied(table, order, confirmations, n) ==
  IF n = 0 THEN table
  ELSE UpdateSizeIn(UpdatesApplied(table, order, confirmations, n - 1),
                    order[n], confirmations[order[n]])

(* A transaction that keeps what was written before the error. *)
TransactionNoRollback(before, written, failed) == written

(* db.Transaction(func(tx) error {...}): commit on nil, roll back on error. *)
Transaction(before, written, failed) == IF failed THEN before ELSE written

(* failAt: the update of the loop the database answers with an error,      *)
(* 0 for none.                                                             *)
ConfirmBulkUpload ==
  \E confirmations \in ConfirmationMaps :
    \E order \in Orders(DOMAIN confirmations), failAt \in 0..Cardinality(DOMAIN confirmations) :
      LET n      == Cardinality(DOMAIN confirmations)
          failed == failAt # 0
          done   == IF failed THEN failAt - 1 ELSE n
          call   == [op |-> "ConfirmBulkUpload", confirmations |-> confirmations]
      IN
        /\ IF n = 0
             THEN /\ photos' = photos
                  /\ last' = call @@ [ok |-> TRUE, err |-> ""]
           ELSE IF \E k \in DOMAIN confirmations : ~IsUUID(k)
             THEN /\ photos' = photos
                  /\ last' = call @@ [ok |-> FALSE, err |-> "invalid photo ID"]
           ELSE /\ photos' = Transaction(photos,
                                         UpdatesApplied(photos, order, confirmations, done),
                                         failed)
                /\ last' = call @@ [ok |-> ~failed,
                                    err |-> IF failed THEN "failed to update photo size" ELSE ""]
        /\ UNCHANGED <<clientVars, objects, calls, events, sessions, now, publicDomain>>

(* if len(files) > 50 *)
maxFilesPerBatch == 50

(* The photo IDs uuid.New() returns to a batch: p1, p2, ... *)
Id(i) == "p" \o ToString(i)

(* FileSpec: the content type and the size the client declares. *)
FileSpecs == {[contentType |-> <<"image/png">>, size |-> 0],
              [contentType |-> <<"application/pdf">>, size |-> 1024]}

BatchLengths == {0, 1, 2, maxFilesPerBatch, maxFilesPerBatch + 1}

(* The file lists of the requests: a first file and more files of one kind. *)
FileLists ==
  {[i \in 1..n |-> IF i = 1 THEN f ELSE g] : n \in BatchLengths, f \in FileSpecs, g \in FileSpecs}

(* The IDs drawn for a batch of n files: n new ones from p1 or from p3 on, *)
(* or the same ID for every file.                                          *)
IdDraws(n) ==
  {[i \in 1..n |-> Id(off + i)] : off \in {0, 2}} \cup {[i \in 1..n |-> Id(1)]}

(* The cap left out. *)
TooManyFilesNever(files) == FALSE

TooManyFiles(files) == Len(files) > maxFilesPerBatch

(* db.Create(&photoRecords): one INSERT of all rows; it fails on an empty  *)
(* slice, on a primary key that is in the table or twice in the batch, and *)
(* when the database fails.                                                *)
BatchInsertFails(ids, dbFails) ==
  \/ Len(ids) = 0
  \/ dbFails
  \/ \E i \in DOMAIN ids : ids[i] \in DOMAIN photos
  \/ \E i \in DOMAIN ids, j \in DOMAIN ids : i # j /\ ids[i] = ids[j]

(* signFailAt: the file whose presigned URL cannot be generated, 0 for     *)
(* none.                                                                   *)
GenerateBulkUploadURLsIn(eventIds, fileLists) ==
  \E eventID \in eventIds, uploaderName \in GuestNames, files \in fileLists,
     signFailAt \in {0, 1}, dbFails \in BOOLEAN :
    \E ids \in IdDraws(Len(files)) :
      LET objectKey(i) == ObjectKey(eventID, ids[i],
                                    getExtensionFromContentType(files[i].contentType))
          uploads == [i \in 1..Len(files) |-> [id |-> ids[i], key |-> objectKey(i)]]
          call == [op |-> "GenerateBulkUploadURLs", event |-> eventID,
                   uploader |-> uploaderName, files |-> files]
          fail(err) == /\ photos' = photos
                       /\ last' = call @@ [ok |-> FALSE, err |-> err, uploads |-> <<>>]
      IN
        /\ IF eventID \notin LiveEvents THEN fail("event not found")
           ELSE IF TooManyFiles(files) THEN fail("too many files")
           ELSE IF signFailAt # 0 /\ signFailAt <= Len(files)
             THEN fail("failed to generate upload URL for file")
           ELSE IF BatchInsertFails(ids, dbFails) THEN fail("failed to create photo records")
           ELSE /\ photos' = photos @@
                               [p \in {ids[i] : i \in DOMAIN ids} |->
                                  LET i == CHOOSE j \in DOMAIN ids : ids[j] = p IN
                                    [event |-> eventID,
                                     uploader |-> uploaderName,
                                     key |-> objectKey(i),
                                     mime |-> files[i].contentType,
                                     size |-> files[i].size,
                                     deleted |-> FALSE]]
                /\ last' = call @@ [ok |-> TRUE, err |-> "", uploads |-> uploads]
        /\ UNCHANGED <<clientVars, objects, calls, events, sessions, now, publicDomain>>

GenerateBulkUploadURLs == GenerateBulkUploadURLsIn(EventIds, FileLists)

(* The client's PUT of a file to a presigned upload URL: the object       *)
(* stands in the store under the key the URL was signed for.               *)
uploadFile ==
  \E p \in DOMAIN photos :
    /\ objects' = objects \cup {photos[p].key}
    /\ last' = [op |-> "uploadFile", ok |-> TRUE, id |-> p]
    /\ UNCHANGED <<clientVars, calls, events, sessions, photos, now, publicDomain>>

(* GeneratePresignedDownloadURL(ctx, archiveKey, 1*time.Hour); time counts *)
(* hours.                                                                  *)
DownloadTTL == 1

ArchiveIds == {"a1"}

(* fmt.Sprintf("events/%s/archives/%s.zip", eventID, uuid.New()) *)
ArchiveKey(eventID, archiveID) ==
  <<"events", "/", eventID, "/", "archives", "/", archiveID, ".zip">>

(* The count with the soft-deleted photos in it. *)
PhotoCountWithDeleted(eventID) ==
  Cardinality({p \in DOMAIN photos : photos[p].event = eventID})

(* photos, err := s.GetPhotosByEvent(ctx, eventID); len(photos) *)
PhotoCount(eventID) == Cardinality(GetPhotosByEvent(eventID))

(* signed: whether the presigner returned a download URL. *)
GenerateBulkDownloadURL ==
  \E eventID \in EventIds, archiveID \in ArchiveIds, signed \in BOOLEAN :
    LET call == [op |-> "GenerateBulkDownloadURL", event |-> eventID,
                 key |-> ArchiveKey(eventID, archiveID)]
    IN
      /\ IF PhotoCount(eventID) = 0
           THEN last' = call @@ [ok |-> FALSE, err |-> "no photos found for event",
                                 count |-> 0, expires |-> 0]
         ELSE IF ~signed
           THEN last' = call @@ [ok |-> FALSE, err |-> "failed to generate download URL",
                                 count |-> 0, expires |-> 0]
         ELSE last' = call @@ [ok |-> TRUE, err |-> "",
                               count |-> PhotoCount(eventID), expires |-> now + DownloadTTL]
      /\ UNCHANGED <<clientVars, objects, calls, events, sessions, photos, now, publicDomain>>

-----------------------------------------------------------------------------
(* Concurrent CreateEvent calls *)

(* The requests served at the same time, one goroutine each. *)
Procs == {"r1", "r2"}

(* One pass of the loop of generateUniqueCode in call r: a code is drawn   *)
(* and counted; with count 0 the call goes on to its insert, otherwise to  *)
(* the next attempt, and after maxAttempts attempts it fails.              *)
generateUniqueCodeAttempt ==
  \E r \in Procs, codeStr \in Codes :
    LET attempts == IF r \in DOMAIN calls THEN calls[r].attempts ELSE 0
        others   == [q \in DOMAIN calls \ {r} |-> calls[q]]
    IN
      /\ r \in DOMAIN calls => calls[r].pc = "check"
      /\ IF CountByCode(codeStr) = 0
           THEN /\ calls' = others @@ (r :> [pc |-> "insert", attempts |-> attempts + 1,
                                             code |-> codeStr])
                /\ last' = [op |-> "generateUniqueCode", ok |-> TRUE, call |-> r, code |-> codeStr]
         ELSE IF attempts + 1 < maxAttempts
           THEN /\ calls' = others @@ (r :> [pc |-> "check", attempts |-> attempts + 1,
                                             code |-> ""])
                /\ last' = [op |-> "generateUniqueCode", ok |-> FALSE, call |-> r, code |-> codeStr]
         ELSE /\ calls' = others
              /\ last' = [op |-> "CreateEvent", ok |-> FALSE, call |-> r, code |-> codeStr,
                          id |-> Nil, err |-> "failed to generate unique code"]
      /\ UNCHANGED <<clientVars, objects, events, sessions, photos, now, publicDomain>>

(* The insert of call r, with the code its check returned; the call ends   *)
(* with the insert, whatever its outcome.                                  *)
CreateEventInsert ==
  \E r \in DOMAIN calls, id \in EventIds :
    LET code == calls[r].code IN
      /\ calls[r].pc = "insert"
      /\ calls' = [q \in DOMAIN calls \ {r} |-> calls[q]]
      /\ IF EventInsertFails(id, code)
           THEN /\ events' = events
                /\ last' = [op |-> "CreateEvent", ok |-> FALSE, call |-> r, code |-> code,
                            id |-> id, err |-> "failed to create event"]
           ELSE /\ events' = events @@ (id :> [code |-> code,
                                               status |-> EventStatusActive,
                                               deleted |-> FALSE])
                /\ last' = [op |-> "CreateEvent", ok |-> TRUE, call |-> r, code |-> code,
                            id |-> id, err |-> ""]
      /\ UNCHANGED <<clientVars, objects, sessions, photos, now, publicDomain>>

-----------------------------------------------------------------------------
(* Concurrent RefreshSession calls: the validation and the update of the   *)
(* expiry are two statements, and other calls run between them.  calls[r]  *)
(* holds the token of a call that has validated and not yet updated.       *)

(* session, err := s.ValidateSession(ctx, token) *)
RefreshSessionValidate ==
  \E r \in Procs \ DOMAIN calls, token \in Tokens :
    /\ IF ValidateSession(token).ok
         THEN /\ calls' = calls @@ (r :> [pc |-> "update", token |-> token])
              /\ last' = [op |-> "ValidateSession", ok |-> TRUE, token |-> token, call |-> r]
         ELSE /\ calls' = calls
              /\ last' = [op |-> "RefreshSession", ok |-> FALSE, token |-> token,
                          expires |-> 0, call |-> r]
    /\ UNCHANGED <<clientVars, objects, events, sessions, photos, now, publicDomain>>

(* The update written as db.Save(session): the row as the call loaded it,  *)
(* with the new expiry.                                                    *)
UpdateExpiresAtSave(token) ==
  [sessions EXCEPT ![token].expires = newExpiresAt, ![token].deleted = FALSE]

(* db.Model(&session).Update("expires_at", newExpiresAt): an UPDATE of the *)
(* row with the session's primary key, and deleted_at IS NULL.             *)
UpdateExpiresAt(token) ==
  IF token \in LiveSessions
    THEN [sessions EXCEPT ![token].expires = newExpiresAt]
    ELSE sessions

(* The update matching no row is no error: the call returns the session    *)
(* with the new expiry.                                                    *)
RefreshSessionUpdate ==
  \E r \in DOMAIN calls :
    LET token == calls[r].token IN
      /\ calls[r].pc = "update"
      /\ calls' = [q \in DOMAIN calls \ {r} |-> calls[q]]
      /\ sessions' = UpdateExpiresAt(token)
      /\ last' = [op |-> "RefreshSession", ok |-> TRUE, token |-> token,
                  expires |-> newExpiresAt, call |-> r]
      /\ UNCHANGED <<clientVars, objects, events, photos, now, publicDomain>>

-----------------------------------------------------------------------------
(* The frontend auth store (zustand, persisted under "auth-storage") and   *)
(* the API client's token.  The server is the store's environment: a       *)
(* request resolves with a session or rejects.                             *)

serverVars == <<events, sessions, photos, objects, calls, publicDomain>>

(* session: null *)
NoSession == [session_token |-> Nil, event_id |-> Nil, expires_at |-> 0]

(* The sessions a server response carries: two tokens, and the expiry of   *)
(* a session created or refreshed at time 0, 12 or 24.                     *)
ExpiresAts == {24, 36, 48}

ClientSessions ==
  {[session_token |-> t, event_id |-> "e1", expires_at |-> x] :
     t \in {"t1", "t2"}, x \in ExpiresAts}

(* The state the store is created with. *)
initialState == [session |-> NoSession, isAuthenticated |-> FALSE]

(* partialize: the part of the state that is written to localStorage. *)
partialize(state) ==
  [session |-> state.session, isAuthenticated |-> state.isAuthenticated]

(* setSession: the client's token first, then the state; persist writes    *)
(* the new state through.  authStorage is empty or holds the one item.     *)
setSessionTo(session) ==
  /\ authToken' = IF session # NoSession THEN session.session_token ELSE Nil
  /\ authStore' = [session |-> session, isAuthenticated |-> session # NoSession]
  /\ authStorage' = {partialize(authStore')}

setSessionIn(sessionArgs) ==
  \E session \in sessionArgs :
    /\ setSessionTo(session)
    /\ last' = [op |-> "setSession", ok |-> TRUE]
    /\ UNCHANGED <<serverVars, now, refreshing, uploadFiles, uploadAttempts>>

setSession == setSessionIn(ClientSessions \cup {NoSession})

clearSessionNow ==
  /\ authToken' = Nil
  /\ authStore' = [session |-> NoSession, isAuthenticated |-> FALSE]
  /\ authStorage' = {partialize(authStore')}

clearSession ==
  /\ clearSessionNow
  /\ last' = [op |-> "clearSession", ok |-> TRUE]
  /\ UNCHANGED <<serverVars, now, refreshing, uploadFiles, uploadAttempts>>

(* refreshSession up to its await: without a session it returns, with one  *)
(* it sends the session's token.  refreshing holds the sessions whose      *)
(* token was sent and whose response is awaited; nothing in the store      *)
(* keeps a second call from starting while one is in flight.               *)
MaxRefreshing == 2

refreshSessionRequest ==
  /\ IF authStore.session = NoSession
       THEN /\ refreshing' = refreshing
            /\ last' = [op |-> "refreshSession", ok |-> TRUE, sent |-> FALSE]
       ELSE /\ Cardinality(refreshing \cup {authStore.session}) <= MaxRefreshing
            /\ refreshing' = refreshing \cup {authStore.session}
            /\ last' = [op |-> "refreshSession request", ok |-> TRUE, sent |-> TRUE]
  /\ UNCHANGED <<serverVars, now, authStore, authToken, authStorage, uploadFiles, uploadAttempts>>

(* refreshSession after its await: setSession with the session of the      *)
(* response, or clearSession when the request was rejected.                *)
refreshSessionResponse ==
  \E sent \in refreshing, resolved \in BOOLEAN, expiresAt \in ExpiresAts :
    /\ refreshing' = refreshing \ {sent}
    /\ IF resolved
         THEN setSessionTo([sent EXCEPT !.expires_at = expiresAt])
         ELSE clearSessionNow
    /\ last' = [op |-> "refreshSession", ok |-> resolved, sent |-> TRUE]
    /\ UNCHANGED <<serverVars, now, uploadFiles, uploadAttempts>>

(* A page reload: the module is evaluated again, so the API client is a    *)
(* new object (authToken null) and the store is created with its initial   *)
(* state, over which persist merges what "auth-storage" holds.  Requests   *)
(* in flight and the page's component state are gone.                      *)
reload ==
  /\ authToken' = Nil
  /\ authStore' = IF authStorage = {} THEN initialState
                  ELSE CHOOSE item \in authStorage : TRUE
  /\ refreshing' = {}
  /\ uploadFiles' = <<>>
  /\ uploadAttempts' = <<>>
  /\ last' = [op |-> "reload", ok |-> TRUE]
  /\ UNCHANGED <<serverVars, now, authStorage>>

-----------------------------------------------------------------------------
(* The frontend upload page.  uploadFiles is the page's list of files      *)
(* (status and progress by file id); uploadAttempts holds, for a file      *)
(* whose uploadFile call is at an await, the request it waits for and what *)
(* the call has in hand: the session's event and the photo ID and key of   *)
(* the upload URL response.  The buttons that start a call are rendered    *)
(* for a pending or failed file only, so a file has one call at a time.    *)

UploadFileIds == {"f1", "f2"}

(* file.size and file.type of the files chosen (handleFiles keeps images). *)
UploadFileSize == 204800

UploadFileType == <<"image/png">>

handleFiles ==
  \E f \in UploadFileIds \ DOMAIN uploadFiles :
    /\ uploadFiles' = uploadFiles @@ (f :> [status |-> "pending", progress |-> 0])
    /\ last' = [op |-> "handleFiles", ok |-> TRUE, file |-> f]
    /\ UNCHANGED <<serverVars, now, authStore, authToken, authStorage, refreshing,
                   uploadAttempts>>

removeFile ==
  \E f \in DOMAIN uploadFiles :
    /\ uploadFiles[f].status = "pending"
    /\ uploadFiles' = [g \in DOMAIN uploadFiles \ {f} |-> uploadFiles[g]]
    /\ last' = [op |-> "removeFile", ok |-> TRUE, file |-> f]
    /\ UNCHANGED <<serverVars, now, authStore, authToken, authStorage, refreshing,
                   uploadAttempts>>

(* What a step of the page leaves in last. *)
UploadStep(step, f, ok, photoID) ==
  [op |-> "UploadPage", step |-> step, file |-> f, ok |-> ok, photo_id |-> photoID]

(* The catch block with the progress left as it was. *)
catchErrorKeepProgress(f) ==
  [uploadFiles EXCEPT ![f].status = "error"]

(* The catch block: status "error", progress 0. *)
catchError(f) ==
  [uploadFiles EXCEPT ![f] = [status |-> "error", progress |-> 0]]

(* uploadFile up to its first await (uploadAll for a pending file,         *)
(* retryUpload for a failed one): without an event_id in the session the   *)
(* file is marked failed and the call returns.                             *)
UploadPageUploadFile ==
  \E f \in DOMAIN uploadFiles \ DOMAIN uploadAttempts :
    /\ uploadFiles[f].status \in {"pending", "error"}
    /\ IF authStore.session.event_id = Nil
         THEN /\ uploadFiles' = [uploadFiles EXCEPT ![f].status = "error"]
              /\ uploadAttempts' = uploadAttempts
              /\ last' = UploadStep("session", f, FALSE, Nil)
         ELSE /\ uploadFiles' = [uploadFiles EXCEPT ![f] = [status |-> "uploading",
                                                            progress |-> 0]]
              /\ uploadAttempts' = uploadAttempts @@
                   (f :> [pc |-> "getUploadURL", event_id |-> authStore.session.event_id,
                          photo_id |-> Nil, key |-> <<>>])
              /\ last' = UploadStep("start", f, TRUE, Nil)
    /\ UNCHANGED <<serverVars, now, authStore, authToken, authStorage, refreshing>>

(* await apiClient.getUploadURL: the server lets the request through       *)
(* (authorized) or not; the service inserts the placeholder row.           *)
UploadPageGetUploadURL ==
  \E f \in DOMAIN uploadAttempts, photoID \in PhotoIds, uploaderName \in GuestNames,
     authorized \in BOOLEAN, signed \in BOOLEAN :
    LET call      == uploadAttempts[f]
        objectKey == ObjectKey(call.event_id, photoID,
                               getExtensionFromContentType(UploadFileType))
    IN
      /\ call.pc = "getUploadURL"
      /\ IF authorized /\ GenerateUploadURLOK(call.event_id, photoID, signed)
           THEN /\ photos' = photos @@ (photoID :> [event |-> call.event_id,
                                                     uploader |-> uploaderName,
                                                     key |-> objectKey,
                                                     mime |-> UploadFileType,
                                                     size |-> 0,
                                                     deleted |-> FALSE])
                /\ uploadFiles' = [uploadFiles EXCEPT ![f].progress = 30]
                /\ uploadAttempts' = [uploadAttempts EXCEPT ![f] =
                     [call EXCEPT !.pc = "uploadFile", !.photo_id = photoID,
                                  !.key = objectKey]]
                /\ last' = UploadStep("getUploadURL", f, TRUE, photoID)
           ELSE /\ photos' = photos
                /\ uploadFiles' = catchError(f)
                /\ uploadAttempts' = [g \in DOMAIN uploadAttempts \ {f} |-> uploadAttempts[g]]
                /\ last' = UploadStep("getUploadURL", f, FALSE, Nil)
      /\ UNCHANGED <<events, sessions, objects, calls, publicDomain, now,
                     authStore, authToken, authStorage, refreshing>>

(* await apiClient.uploadFile: the PUT to the presigned URL. *)
UploadPagePut ==
  \E f \in DOMAIN uploadAttempts, stored \in BOOLEAN :
    LET call == uploadAttempts[f] IN
      /\ call.pc = "uploadFile"
      /\ IF stored
           THEN /\ objects' = objects \cup {call.key}
                /\ uploadFiles' = [uploadFiles EXCEPT ![f].progress = 70]
                /\ uploadAttempts' = [uploadAttempts EXCEPT ![f].pc = "confirmUpload"]
           ELSE /\ objects' = objects
                /\ uploadFiles' = catchError(f)
                /\ uploadAttempts' = [g \in DOMAIN uploadAttempts \ {f} |-> uploadAttempts[g]]
      /\ last' = UploadStep("uploadFile", f, stored, call.photo_id)
      /\ UNCHANGED <<events, sessions, photos, calls, publicDomain, now,
                     authStore, authToken, authStorage, refreshing>>

(* await apiClient.confirmUpload(uploadResponse.photo_id, {file_size}) *)
UploadPageConfirmUpload ==
  \E f \in DOMAIN uploadAttempts, authorized \in BOOLEAN :
    LET call == uploadAttempts[f] IN
      /\ call.pc = "confirmUpload"
      /\ IF authorized
           THEN /\ photos' = UpdateSize(call.photo_id, UploadFileSize)
                /\ uploadFiles' = [uploadFiles EXCEPT ![f] = [status |-> "success",
                                                              progress |-> 100]]
           ELSE /\ photos' = photos
                /\ uploadFiles' = catchError(f)
      /\ uploadAttempts' = [g \in DOMAIN uploadAttempts \ {f} |-> uploadAttempts[g]]
      /\ last' = UploadStep("confirmUpload", f, authorized, call.photo_id)
      /\ UNCHANGED <<events, sessions, objects, calls, publicDomain, now,
                     authStore, authToken, authStorage, refreshing>>

-----------------------------------------------------------------------------
Domains == {<<"cdn">>, <<"cdn", "/">>}

InitWith(domains) ==
  /\ events = <<>>
  /\ sessions = <<>>
  /\ photos = <<>>
  /\ objects = {}
  /\ calls = <<>>
  /\ now = 0
  /\ publicDomain \in domains
  /\ last = [op |-> "init", ok |-> TRUE]
  /\ authStore = [session |-> [session_token |-> Nil, event_id |-> Nil, expires_at |-> 0],
                  isAuthenticated |-> FALSE]
  /\ authToken = Nil
  /\ authStorage = {}
  /\ refreshing = {}
  /\ uploadFiles = <<>>
  /\ uploadAttempts = <<>>

Init == InitWith(Domains)

(* One configured domain, for the specifications no public URL is built in. *)
InitOneDomain == InitWith({<<"cdn">>})

NextEvents == CreateEvent \/ UpdateEvent \/ DeleteEvent \/ CloseEvent

SpecEvents == InitOneDomain /\ [][NextEvents]_vars

(* The session issuer over one event (e1, code AAAAAAAA); requests naming  *)
(* e2 meet no row.                                                          *)
OneEvent == {"e1"}

OneDraw == {[i \in 1..maxAttempts |-> "AAAAAAAA"]}

NextSessions ==
  \/ CreateEventIn(OneEvent, OneDraw) \/ UpdateEvent \/ DeleteEvent \/ CloseEvent
  \/ CreateSession \/ RefreshSession \/ RevokeSession \/ CleanupExpiredSessions
  \/ Tick

SpecSessions == InitOneDomain /\ [][NextSessions]_vars

(* The photo registrar over two events, one code each. *)
TwoDraws == {[i \in 1..maxAttempts |-> c] : c \in Codes}

NextPhotos ==
  \/ CreateEventIn(EventIds, TwoDraws)
  \/ GenerateUploadURLIn(EventIds, GuestNames, TwoContentTypes) \/ ConfirmUpload \/ DeletePhoto \/ DeleteBulkPhotos

SpecPhotos == Init /\ [][NextPhotos]_vars

(* The routes of main.go over one event, with the operations that close an *)
(* event, seed or revoke a session and advance the clock.                  *)
NextHTTP ==
  \/ CreateEventIn(OneEvent, OneDraw) \/ CloseEvent
  \/ RevokeSession \/ Tick
  \/ SessionHandlerCreateSession
  \/ PhotoHandlerGenerateUploadURL \/ PhotoHandlerConfirmUpload

SpecHTTP == InitOneDomain /\ [][NextHTTP]_vars

(* The session routes, and upload-url requests that name an event (e2) no  *)
(* row stands for.                                                         *)
NextHTTPErrors ==
  \/ CreateEventIn(OneEvent, OneDraw) \/ CloseEvent
  \/ CreateSession \/ Tick
  \/ SessionHandlerRefreshSession \/ SessionHandlerRevokeSession
  \/ PhotoHandlerGenerateUploadURLIn({"e2"})

SpecHTTPErrors == InitOneDomain /\ [][NextHTTPErrors]_vars

OneContentType == {<<"image/png">>}

(* Single uploads into one event, confirmed in bulk. *)
NextBulkConfirm ==
  \/ CreateEventIn(OneEvent, OneDraw)
  \/ GenerateUploadURLIn(OneEvent, GuestNames, OneContentType)
  \/ ConfirmBulkUpload \/ DeletePhoto

SpecBulkConfirm == InitOneDomain /\ [][NextBulkConfirm]_vars

(* Single and bulk uploads into one event, confirmed one by one. *)
NextBulkUpload ==
  \/ CreateEventIn(OneEvent, OneDraw)
  \/ GenerateUploadURLIn(OneEvent, GuestNames, OneContentType)
  \/ GenerateBulkUploadURLsIn(EventIds, FileLists)
  \/ ConfirmUploadIn({"p1"}, FileSizes)

SpecBulkUpload == InitOneDomain /\ [][NextBulkUpload]_vars

(* Uploads into two events, deletions, and the bulk download. *)
NextDownload ==
  \/ CreateEventIn(EventIds, TwoDraws)
  \/ GenerateUploadURLIn(EventIds, GuestNames, OneContentType)
  \/ uploadFile \/ DeletePhoto \/ GenerateBulkDownloadURL \/ Tick

SpecDownload == InitOneDomain /\ [][NextDownload]_vars

(* One event with its sessions and photos, and its deletion. *)
(* The auth store under every order of its operations and reloads. *)
NextAuthStore ==
  \/ setSession \/ clearSession
  \/ refreshSessionRequest \/ refreshSessionResponse
  \/ reload

SpecAuthStore == InitOneDomain /\ [][NextAuthStore]_vars

(* The upload page of a guest of e1, logouts included. *)
OneClientSession == {[session_token |-> "t1", event_id |-> "e1", expires_at |-> 24]}

NextUploadPage ==
  \/ CreateEventIn(OneEvent, OneDraw)
  \/ setSessionIn(OneClientSession) \/ clearSession
  \/ handleFiles \/ removeFile
  \/ UploadPageUploadFile \/ UploadPageGetUploadURL
  \/ UploadPagePut \/ UploadPageConfirmUpload

SpecUploadPage == InitOneDomain /\ [][NextUploadPage]_vars

(* Confirms with two sizes, of stored, deleted and unknown photo IDs. *)
TwoFileSizes == {204800, 512000}

NextConfirm ==
  \/ CreateEventIn(OneEvent, OneDraw)
  \/ GenerateUploadURLIn(OneEvent, GuestNames, OneContentType)
  \/ ConfirmUploadIn(PhotoIds, TwoFileSizes)
  \/ DeletePhoto

SpecConfirm == InitOneDomain /\ [][NextConfirm]_vars

(* RefreshSession calls interleaved with revokes, cleanups and the clock.   *)
NextConcurrentRefresh ==
  \/ CreateEventIn(OneEvent, OneDraw)
  \/ CreateSession \/ RevokeSession \/ CleanupExpiredSessions
  \/ RefreshSessionValidate \/ RefreshSessionUpdate
  \/ Tick

SpecConcurrentRefresh == InitOneDomain /\ [][NextConcurrentRefresh]_vars

(* The photo routes with two events: a guest of one event names the other  *)
(* event in the body, or a photo of the other event in the path.           *)
NextCrossEvent ==
  \/ CreateEventIn(EventIds, TwoDraws)
  \/ CreateSession
  \/ PhotoHandlerGenerateUploadURLIn(EventIds) \/ PhotoHandlerConfirmUpload

SpecCrossEvent == InitOneDomain /\ [][NextCrossEvent]_vars

(* Uploads against events of every status; e2 is never created. *)
NextUpload ==
  \/ CreateEventIn(OneEvent, OneDraw) \/ UpdateEvent \/ DeleteEvent
  \/ CreateSession
  \/ GenerateUploadURLIn(EventIds, GuestNames, TwoContentTypes)

SpecUpload == InitOneDomain /\ [][NextUpload]_vars

NextCascade ==
  \/ CreateEventIn(OneEvent, OneDraw) \/ DeleteEvent
  \/ CreateSession \/ GenerateUploadURLIn(OneEvent, GuestNames, OneContentType)
  \/ DeletePhoto \/ GenerateBulkDownloadURL

SpecCascade == InitOneDomain /\ [][NextCascade]_vars

(* Two CreateEvent calls at a time, their queries and inserts interleaved. *)
NextConcurrentCreate == generateUniqueCodeAttempt \/ CreateEventInsert

SpecConcurrentCreate == InitOneDomain /\ [][NextConcurrentCreate]_vars

-----------------------------------------------------------------------------
(* Properties of the event directory (SpecEvents) *)

(* C1: no two non-deleted events carry the same code, and the code a       *)
(* successful CreateEvent returns is attached to the new event and to no   *)
(* other non-deleted event.                                                *)
C1_UniqueLiveCodes ==
  /\ \A e1 \in LiveEvents, e2 \in LiveEvents :
       e1 # e2 => events[e1].code # events[e2].code
  /\ (last.op = "CreateEvent" /\ last.ok) =>
       /\ last.id \in LiveEvents
       /\ events[last.id].code = last.code
       /\ last.code \in Codes
       /\ \A e \in LiveEvents : e # last.id => events[e].code # last.code

(* A CreateEvent has just succeeded while another event is live. *)
C1_Witness ==
  /\ last.op = "CreateEvent" /\ last.ok
  /\ Cardinality(LiveEvents) = 2

-----------------------------------------------------------------------------
(* Properties of the session issuer (SpecSessions) *)

(* The event of a session exists, is not deleted and is active. *)
EventOpen(eventID) ==
  /\ eventID \in DOMAIN events
  /\ ~events[eventID].deleted
  /\ events[eventID].status = "active"

(* C2: a session that has not been revoked and whose event is active       *)
(* validates at every time before its expires_at, ValidateSession          *)
(* returning that session; at its expires_at and at every later time       *)
(* validation fails.                                                       *)
C2_ValidUntilExpiry ==
  \A t \in DOMAIN sessions :
    /\ (~sessions[t].deleted /\ EventOpen(sessions[t].event)) =>
         (ValidateSession(t).ok <=> now < sessions[t].expires)
    /\ ValidateSession(t).ok => ValidateSession(t).session = sessions[t]
    /\ now >= sessions[t].expires => ~ValidateSession(t).ok

(* One session of an active event is exactly at its expiry and fails,      *)
(* another is before its expiry and validates.                             *)
C2_Witness ==
  \E t1 \in DOMAIN sessions, t2 \in DOMAIN sessions :
    /\ ~sessions[t1].deleted /\ EventOpen(sessions[t1].event)
    /\ sessions[t1].expires = now
    /\ ~ValidateSession(t1).ok
    /\ now < sessions[t2].expires
    /\ ValidateSession(t2).ok

(* C3: ValidateSession succeeds only for a token whose row exists and is   *)
(* not revoked, with now < expires_at, and whose event exists, is not      *)
(* deleted and is active; no session of an inactive or closed event        *)
(* validates, and no RefreshSession of one succeeds.                       *)
C3_ValidOnlyWhileActive ==
  /\ \A t \in Tokens :
       ValidateSession(t).ok =>
         /\ t \in DOMAIN sessions
         /\ ~sessions[t].deleted
         /\ now < sessions[t].expires
         /\ EventOpen(sessions[t].event)
  /\ \A t \in DOMAIN sessions :
       LET e == sessions[t].event IN
         (e \in DOMAIN events
            /\ events[e].status \in {EventStatusInactive, EventStatusClosed}) =>
           /\ ~ValidateSession(t).ok
           /\ ~(last.op = "RefreshSession" /\ last.ok /\ last.token = t)

(* An unexpired, unrevoked session of a closed event has just been refused *)
(* a refresh.                                                              *)
C3_Witness ==
  /\ last.op = "RefreshSession" /\ ~last.ok
  /\ last.token \in LiveSessions
  /\ now < sessions[last.token].expires
  /\ sessions[last.token].event \in LiveEvents
  /\ events[sessions[last.token].event].status = EventStatusClosed

(* C6: a successful RefreshSession leaves the session with expires_at =    *)
(* (time of the call) + 24h whatever its expiry was, changing no other     *)
(* row; a RefreshSession of a token that does not validate fails and       *)
(* changes no row.                                                         *)
C6_RefreshPost ==
  last'.op = "RefreshSession" =>
    IF last'.ok
      THEN /\ ValidateSession(last'.token).ok
           /\ sessions' = [sessions EXCEPT ![last'.token].expires = now + 24]
           /\ last'.expires = now + 24
      ELSE /\ ~ValidateSession(last'.token).ok
           /\ sessions' = sessions

C6_RefreshResetsExpiry == [][C6_RefreshPost]_vars

(* A refresh has succeeded at a time after the session's creation: the new *)
(* expiry is neither the old one nor the old one plus 24 hours.            *)
C6_Witness ==
  /\ last.op = "RefreshSession" /\ last.ok
  /\ sessions[last.token].expires = now + 24
  /\ last.old # sessions[last.token].expires
  /\ last.old + 24 # sessions[last.token].expires

(* C7, as stated: after a successful RevokeSession the row no longer       *)
(* exists in storage.                                                      *)
C7_RowGone ==
  (last.op = "RevokeSession" /\ last.ok) => last.token \notin DOMAIN sessions

(* C7, amended: a successful RevokeSession leaves the row in storage       *)
(* marked deleted, where no query of the service sees it; RevokeSession    *)
(* fails exactly when no non-deleted row has the token, so a second        *)
(* RevokeSession of the same token fails.                                  *)
C7_RevokeSoftDeletes ==
  last.op = "RevokeSession" =>
    IF last.ok
      THEN /\ last.token \in DOMAIN sessions
           /\ sessions[last.token].deleted
           /\ ~ValidateSession(last.token).ok
           /\ RevokeRowsAffected(last.token) = 0
      ELSE \/ last.token \notin DOMAIN sessions
           \/ sessions[last.token].deleted

(* A second RevokeSession of a token revoked before its expiry has failed. *)
C7_Witness ==
  /\ last.op = "RevokeSession" /\ ~last.ok
  /\ last.token \in DOMAIN sessions
  /\ sessions[last.token].deleted
  /\ now < sessions[last.token].expires

(* C8: CreateSession succeeds only for an event that exists, is not        *)
(* deleted and is active, and for any other event it fails and the         *)
(* sessions table is unchanged.                                            *)
C8_CreatePost ==
  last'.op = "CreateSession" =>
    /\ last'.ok => /\ EventOpen(last'.event)
                   /\ last'.token \notin DOMAIN sessions
                   /\ last'.token \in DOMAIN sessions'
                   /\ sessions'[last'.token].event = last'.event
    /\ ~EventOpen(last'.event) => ~last'.ok
    /\ ~last'.ok => sessions' = sessions

C8_CreateNeedsActiveEvent == [][C8_CreatePost]_vars

(* CreateSession has just failed for an existing event that is inactive,   *)
(* after an earlier CreateSession succeeded.                               *)
C8_Witness ==
  /\ last.op = "CreateSession" /\ ~last.ok
  /\ last.event \in LiveEvents
  /\ events[last.event].status = EventStatusInactive
  /\ DOMAIN sessions # {}

-----------------------------------------------------------------------------
(* Properties of the photo registrar (SpecPhotos) *)

(* sub occurs in str. *)
Contains(str, sub) ==
  \E i \in 1..(Len(str) - Len(sub) + 1) : SubSeq(str, i, i + Len(sub) - 1) = sub

(* C9: when ConfirmUpload(photoID, N) directly follows the successful      *)
(* GenerateUploadURL(eventID, uploader, contentType) that returned         *)
(* photoID, GetPhotosByEvent(eventID) lists exactly one entry for that     *)
(* photo, with size N, that uploader, and a URL that contains the object   *)
(* key GenerateUploadURL returned.                                         *)
C9_ConfirmPost ==
  (/\ last.op = "GenerateUploadURL" /\ last.ok
   /\ last'.op = "ConfirmUpload" /\ last'.id = last.id) =>
    /\ \E r \in PhotosByEvent(photos', last.event) :
         /\ r.id = last.id
         /\ r.size = last'.size
         /\ r.uploader = last.uploader
         /\ Contains(r.key, last.key)
    /\ Cardinality({r \in PhotosByEvent(photos', last.event) : r.id = last.id}) = 1

C9_UploadThenConfirmListed == [][C9_ConfirmPost]_vars

(* A confirmed photo is listed with the confirmed size under a public      *)
(* domain configured with a trailing slash.                                *)
C9_Witness ==
  /\ last.op = "ConfirmUpload"
  /\ last.id \in LivePhotos
  /\ publicDomain = <<"cdn", "/">>
  /\ \E r \in GetPhotosByEvent(photos[last.id].event) :
       /\ r.id = last.id
       /\ r.size = 204800
       /\ r.key = <<"cdn", "/">> \o photos[last.id].key

(* C10: a DeleteBulkPhotos call naming a photo that does not exist, is     *)
(* already deleted or belongs to another event fails and changes no photo  *)
(* row; every failing call changes no row; a successful call marks exactly *)
(* the named photos deleted and changes nothing else.                      *)
C10_BulkPost ==
  last'.op = "DeleteBulkPhotos" =>
    LET supplied == Range(last'.ids)
        foreign == \E p \in supplied :
                     \/ p \notin DOMAIN photos
                     \/ photos[p].deleted
                     \/ photos[p].event # last'.event
    IN /\ foreign => ~last'.ok
       /\ ~last'.ok => photos' = photos
       /\ last'.ok =>
            /\ DOMAIN photos' = DOMAIN photos
            /\ \A p \in DOMAIN photos :
                 photos'[p] = IF p \in supplied
                                THEN [photos[p] EXCEPT !.deleted = TRUE]
                                ELSE photos[p]

C10_BulkDeleteAllOrNothing == [][C10_BulkPost]_vars

(* A call naming one photo of the given event and one of another event has *)
(* failed, and both photos are still there.                                *)
C10_Witness ==
  /\ last.op = "DeleteBulkPhotos" /\ ~last.ok
  /\ Len(last.ids) = 2
  /\ last.ids[1] \in LivePhotos /\ last.ids[2] \in LivePhotos
  /\ photos[last.ids[1]].event = last.event
  /\ photos[last.ids[2]].event # last.event


-----------------------------------------------------------------------------
(* Properties of the HTTP boundary (SpecHTTP) *)

(* The characters of a hexadecimal string. *)
HexChars == {hextable[i] : i \in DOMAIN hextable}

(* C4: every POST /api/sessions that carries the code of an existing,      *)
(* active event and a valid guest name (the token drawn being new) is      *)
(* answered 201 and has inserted a session of the event that owns the      *)
(* code, under a token of 64 hexadecimal characters, expiring 24 hours     *)
(* from now.                                                               *)
C4_PostPost ==
  \A e \in DOMAIN events :
    (/\ last'.op = "POST /api/sessions"
     /\ EventOpen(e)
     /\ events[e].code = last'.code
     /\ last'.guest \in GuestNames
     /\ last'.token \notin DOMAIN sessions)
    => /\ last'.status = 201
       /\ last'.token \in DOMAIN sessions'
       /\ sessions'[last'.token].event = e
       /\ sessions'[last'.token].guest = last'.guest
       /\ sessions'[last'.token].expires = now + 24
       /\ Len(last'.token) = 64
       /\ \A i \in 1..Len(last'.token) : last'.token[i] \in HexChars

C4_PostCreatesSessionOfCode == [][C4_PostPost]_vars

(* C5: a request to a route of the photo group, as cmd/main.go registers   *)
(* it behind AuthMiddleware, is handled exactly when its                   *)
(* Authorization header is "Bearer " followed by the token of a session    *)
(* that is stored, not revoked, not expired and whose event is active; the *)
(* handler then finds that session's guest name and event ID in the        *)
(* context; a request that is not handled is answered 401 and changes no   *)
(* row.                                                                    *)
C5_AuthPost ==
  last'.op = "photoAPI" =>
    LET h      == last'.header
        bearer == Len(h) >= 7 /\ SubSeq(h, 1, 7) = <<"B", "e", "a", "r", "e", "r", " ">>
        token  == SubSeq(h, 8, Len(h))
        valid  == /\ bearer
                  /\ token \in DOMAIN sessions
                  /\ ~sessions[token].deleted
                  /\ now < sessions[token].expires
                  /\ EventOpen(sessions[token].event)
    IN /\ last'.handled <=> valid
       /\ last'.handled => /\ last'.uploader_name = sessions[token].guest
                           /\ last'.event_id = sessions[token].event
       /\ ~last'.handled => /\ last'.status = 401
                            /\ UNCHANGED <<clientVars, events, sessions, photos>>

-----------------------------------------------------------------------------
(* Properties of the bulk confirmation (SpecBulkConfirm) *)

(* C11: a ConfirmBulkUpload that fails changes no row; one whose map holds *)
(* a key that is no photo ID fails; one that succeeds leaves every listed  *)
(* photo that is stored and not deleted with its listed size and every     *)
(* other row as it was; an empty map succeeds and changes nothing.         *)
C11_ConfirmBulkPost ==
  last'.op = "ConfirmBulkUpload" =>
    LET c == last'.confirmations IN
      /\ ~last'.ok => photos' = photos
      /\ (\E k \in DOMAIN c : k \notin {"p1", "p2"}) => ~last'.ok
      /\ DOMAIN c = {} => last'.ok /\ photos' = photos
      /\ last'.ok =>
           /\ DOMAIN photos' = DOMAIN photos
           /\ \A p \in DOMAIN photos :
                IF p \in DOMAIN c /\ ~photos[p].deleted
                  THEN photos'[p] = [photos[p] EXCEPT !.size = c[p]]
                  ELSE photos'[p] = photos[p]

C11_ConfirmBulkAllOrNothing == [][C11_ConfirmBulkPost]_vars

(* A ConfirmBulkUpload of two stored photos has failed in its transaction  *)
(* and both photos still have size 0.                                      *)
C11_Witness ==
  /\ last.op = "ConfirmBulkUpload"
  /\ ~last.ok
  /\ DOMAIN last.confirmations = {"p1", "p2"}
  /\ \A p \in {"p1", "p2"} : p \in DOMAIN photos /\ ~photos[p].deleted /\ photos[p].size = 0

-----------------------------------------------------------------------------
(* Properties of the uploads (SpecBulkUpload) *)

(* C12: a photo row is created with size 0 and its size changes only in a  *)
(* step of ConfirmUpload or ConfirmBulkUpload, so that every row no        *)
(* confirmation was applied to has size 0.                                 *)
C12_SizePost ==
  \A p \in DOMAIN photos' :
    /\ p \notin DOMAIN photos => photos'[p].size = 0
    /\ (p \in DOMAIN photos /\ photos'[p].size # photos[p].size) =>
         last'.op \in {"ConfirmUpload", "ConfirmBulkUpload"}

C12_UnconfirmedSizeZero == [][C12_SizePost]_vars

(* C14: GenerateBulkUploadURLs fails on more than 50 files; a call that    *)
(* fails inserts no row; a call that succeeds had 1 to 50 files and        *)
(* returns one entry per file, in the order of the files, with distinct    *)
(* new photo IDs, and has inserted exactly one row per entry, with the     *)
(* entry's photo ID and object key and the event of the call.              *)
C14_BulkUploadPost ==
  last'.op = "GenerateBulkUploadURLs" =>
    LET files == last'.files
        ups   == last'.uploads
    IN
      /\ Len(files) > 50 => ~last'.ok
      /\ ~last'.ok => photos' = photos
      /\ last'.ok =>
           /\ Len(files) \in 1..50
           /\ Len(ups) = Len(files)
           /\ \A i \in DOMAIN ups, j \in DOMAIN ups : i # j => ups[i].id # ups[j].id
           /\ DOMAIN photos' = DOMAIN photos \cup {ups[i].id : i \in DOMAIN ups}
           /\ \A p \in DOMAIN photos : photos'[p] = photos[p]
           /\ \A i \in DOMAIN ups :
                /\ ups[i].id \notin DOMAIN photos
                /\ photos'[ups[i].id].key = ups[i].key
                /\ photos'[ups[i].id].event = last'.event
                /\ photos'[ups[i].id].mime = files[i].contentType
                /\ ~photos'[ups[i].id].deleted

C14_BulkUploadOneRowPerFile == [][C14_BulkUploadPost]_vars

(* A batch of 50 files of two kinds has been accepted and 50 rows stand in *)
(* the table.                                                              *)
C14_Witness ==
  /\ last.op = "GenerateBulkUploadURLs"
  /\ last.ok
  /\ Len(last.files) = 50
  /\ last.files[1] # last.files[2]
  /\ Cardinality(DOMAIN photos) >= 50

-----------------------------------------------------------------------------
(* Properties of DeletePhoto (SpecBulkConfirm) *)

(* C13: a DeletePhoto without authorization fails as unauthorized and      *)
(* changes no row, whether or not the photo is stored; an authorized       *)
(* DeletePhoto of a photo that is not stored or is deleted fails as not    *)
(* found; an authorized one that succeeds marks that row deleted and       *)
(* changes no other, and the photo is no longer listed for its event.      *)
C13_DeletePost ==
  last'.op = "DeletePhoto" =>
    LET p == last'.id IN
      /\ ~last'.can => /\ ~last'.ok
                       /\ last'.err = "unauthorized to delete photo"
                       /\ photos' = photos
      /\ (last'.can /\ (p \notin DOMAIN photos \/ photos[p].deleted)) =>
           /\ ~last'.ok
           /\ last'.err = "photo not found"
           /\ photos' = photos
      /\ last'.ok =>
           /\ photos' = [photos EXCEPT ![p].deleted = TRUE]
           /\ \A e \in EventIds : \A r \in PhotosByEvent(photos', e) : r.id # p

C13_DeleteNeedsAuthorization == [][C13_DeletePost]_vars

-----------------------------------------------------------------------------
(* Properties of the status codes (SpecHTTPErrors) *)

(* The token names a session that is stored, not revoked, not expired and  *)
(* whose event is active.                                                  *)
TokenValid(token) ==
  /\ token \in DOMAIN sessions
  /\ ~sessions[token].deleted
  /\ now < sessions[token].expires
  /\ EventOpen(sessions[token].event)

(* C15: a request is answered by the cause of its failure: 400 when a      *)
(* required field is empty, 401 when the middleware rejects it or a        *)
(* refresh names an invalid or expired session (404 when it names none),   *)
(* 404 when a revoke names no session or an upload-url names an event that *)
(* is not stored.                                                          *)
C15_StatusPost ==
  /\ last'.op = "POST /api/sessions/refresh" =>
       /\ last'.token = <<>> => last'.status = 400
       /\ (last'.token # <<>> /\ ~TokenValid(last'.token)) => last'.status \in {401, 404}
  /\ last'.op = "DELETE /api/sessions" =>
       /\ last'.token = <<>> => last'.status = 400
       /\ (last'.token # <<>> /\ (last'.token \notin DOMAIN sessions
                                    \/ sessions[last'.token].deleted)) => last'.status = 404
  /\ (last'.op = "photoAPI" /\ last'.route = "upload-url") =>
       /\ ~last'.handled => last'.status = 401
       /\ (/\ last'.handled
           /\ last'.status # 400
           /\ last'.body_event \in {"e1", "e2"}
           /\ (last'.body_event \notin DOMAIN events \/ events[last'.body_event].deleted))
          => last'.status = 404

C15_StatusByCause == [][C15_StatusPost]_vars

-----------------------------------------------------------------------------
(* Further properties of the event directory (SpecEvents) *)

(* C16: no step takes an event whose status is closed to the status        *)
(* active.                                                                 *)
C16_ClosedPost ==
  \A e \in DOMAIN events :
    events[e].status = "closed" => events'[e].status # "active"

C17_LookupsByStatus ==
  \A e \in DOMAIN events :
    LET byID   == GetEventByID(e)
        byCode == GetEventByCode(events[e].code)
    IN
      /\ events[e].deleted => ~byID.ok /\ ~byCode.ok
      /\ ~events[e].deleted =>
           /\ byID.ok /\ byID.event = events[e]
           /\ events[e].status = "closed" => ~byCode.ok
           /\ events[e].status \in {"active", "inactive"} =>
                byCode.ok /\ byCode.id = e /\ byCode.event = events[e]

(* One event is closed, one inactive and not deleted. *)
C17_Witness ==
  \E e1 \in DOMAIN events, e2 \in DOMAIN events :
    /\ ~events[e1].deleted /\ events[e1].status = "closed"
    /\ ~events[e2].deleted /\ events[e2].status = "inactive"
    /\ GetEventByID(e1).ok
    /\ ~GetEventByCode(events[e1].code).ok
    /\ GetEventByCode(events[e2].code).ok

-----------------------------------------------------------------------------
(* Properties of a deleted event (SpecCascade) *)

(* C18: of a deleted event no session validates, GetPhotosByEvent returns  *)
(* no photo and GenerateBulkDownloadURL counts none.                       *)
C18_DeletedEventHasNoChildren ==
  \A e \in DOMAIN events :
    events[e].deleted =>
      /\ \A t \in DOMAIN sessions : sessions[t].event = e => ~ValidateSession(t).ok
      /\ GetPhotosByEvent(e) = {}
      /\ PhotoCount(e) = 0

-----------------------------------------------------------------------------
(* Properties of the bulk download (SpecDownload) *)

(* C19: GenerateBulkDownloadURL fails when the event has no photo that is  *)
(* not deleted; when it succeeds its PhotoCount is the number of such      *)
(* photos and its expiry one hour from now; it fails otherwise only when   *)
(* the URL cannot be signed; in every case no row and no object changes    *)
(* and no object stands under the archive key.                             *)
C19_DownloadPost ==
  last'.op = "GenerateBulkDownloadURL" =>
    LET n == Cardinality({p \in DOMAIN photos :
                            ~photos[p].deleted /\ photos[p].event = last'.event})
    IN
      /\ n = 0 => ~last'.ok /\ last'.err = "no photos found for event"
      /\ last'.ok => last'.count = n /\ last'.expires = now + 1
      /\ (n > 0 /\ ~last'.ok) => last'.err = "failed to generate download URL"
      /\ UNCHANGED <<clientVars, events, sessions, photos, objects>>
      /\ last'.key \notin objects'

C19_DownloadCountsAndWritesNothing == [][C19_DownloadPost]_vars

(* A download URL has been issued for an event that has one photo and one  *)
(* deleted photo, the count being 1, while the store holds an object.      *)
C19_Witness ==
  /\ last.op = "GenerateBulkDownloadURL"
  /\ last.ok
  /\ last.count = 1
  /\ objects # {}
  /\ \E p \in DOMAIN photos : photos[p].deleted /\ photos[p].event = last.event

-----------------------------------------------------------------------------
(* Properties of concurrent CreateEvent calls (SpecConcurrentCreate) *)

(* C20: no two event rows ever hold the same code; the insert of a call    *)
(* whose code a row already holds fails, changes no row and ends the call  *)
(* with an error, without another attempt.                                 *)
C20_InsertPost ==
  /\ \A e1 \in DOMAIN events', e2 \in DOMAIN events' :
       e1 # e2 => events'[e1].code # events'[e2].code
  /\ \A r \in DOMAIN calls :
       (/\ calls[r].pc = "insert"
        /\ r \notin DOMAIN calls'
        /\ \E e \in DOMAIN events : events[e].code = calls[r].code)
       => /\ last'.op = "CreateEvent"
          /\ last'.call = r
          /\ ~last'.ok
          /\ events' = events

C20_DuplicateInsertFails == [][C20_InsertPost]_vars

(* Both calls have passed the uniqueness check with the same code and      *)
(* neither has inserted.                                                   *)
C20_BothPassedCheck ==
  /\ DOMAIN calls = {"r1", "r2"}
  /\ calls["r1"].pc = "insert" /\ calls["r2"].pc = "insert"
  /\ calls["r1"].code = calls["r2"].code
  /\ \A e \in DOMAIN events : events[e].code # calls["r1"].code

(* The insert of a call has failed, with an ID no row has, on the code of  *)
(* a row that stands in the table: that row was inserted after the call's  *)
(* check and both calls had passed the check before either inserted.       *)
C20_Witness ==
  /\ last.op = "CreateEvent"
  /\ ~last.ok
  /\ last.err = "failed to create event"
  /\ last.id \notin DOMAIN events
  /\ \E e \in DOMAIN events : events[e].code = last.code /\ ~events[e].deleted

-----------------------------------------------------------------------------
(* Properties of the code generation (SpecEvents) *)

(* C21: for every sequence of ten draws, generateUniqueCode returns the    *)
(* first draw that no event visible to the query carries, and an error     *)
(* when all ten draws are carried; a CreateEvent whose generation failed,  *)
(* like every failed CreateEvent, inserts no row.                          *)
C21_GeneratePost ==
  /\ \A draws \in DrawSeqs :
       LET misses == {i \in 1..10 :
                        \A e \in DOMAIN events : events[e].deleted \/ events[e].code # draws[i]}
           g == generateUniqueCode(draws)
       IN IF misses = {}
            THEN ~g.ok
            ELSE /\ g.ok
                 /\ \E i \in misses : g.code = draws[i] /\ \A j \in misses : i <= j
  /\ last'.op = "CreateEvent" =>
       /\ last'.code = "nil" => ~last'.ok
       /\ ~last'.ok => events' = events

C21_GenerationBounded == [][C21_GeneratePost]_vars

(* A CreateEvent has failed in its code generation (it returned no code)   *)
(* while every code that can be drawn is carried by an event.              *)
C21_Witness ==
  /\ last.op = "CreateEvent"
  /\ ~last.ok
  /\ last.code = "nil"
  /\ \A c \in Codes : CountByCode(c) > 0

-----------------------------------------------------------------------------
(* Properties of the single upload (SpecUpload) *)

(* C22: a successful GenerateUploadURL adds exactly one photo row: its ID  *)
(* is the returned photo ID, its event the given (stored, non-deleted)     *)
(* event, its size 0 and its object key the returned key                   *)
(* events/{eventID}/photos/{photoID}{ext}, ext by the content-type table   *)
(* (.jpg for a type the table does not list); a failed one adds no row.    *)
C22_UploadPost ==
  last'.op = "GenerateUploadURL" =>
    IF last'.ok
      THEN LET id == last'.id
               mediaType == photos'[id].mime[1]
               ext == IF mediaType = "image/png" THEN ".png"
                      ELSE IF mediaType = "image/gif" THEN ".gif"
                      ELSE IF mediaType = "image/webp" THEN ".webp"
                      ELSE IF mediaType = "image/heic" THEN ".heic"
                      ELSE IF mediaType = "image/heif" THEN ".heif"
                      ELSE ".jpg"
           IN /\ id \notin DOMAIN photos
              /\ DOMAIN photos' = DOMAIN photos \cup {id}
              /\ \A p \in DOMAIN photos : photos'[p] = photos[p]
              /\ last'.event \in LiveEvents
              /\ photos'[id].event = last'.event
              /\ photos'[id].size = 0
              /\ ~photos'[id].deleted
              /\ photos'[id].key = last'.key
              /\ last'.key = <<"events", "/", last'.event, "/", "photos", "/", id, ext>>
      ELSE photos' = photos

C22_UploadAddsOnePlaceholder == [][C22_UploadPost]_vars

(* A GenerateUploadURL has succeeded for a content type the table does not *)
(* list, next to a row of a listed type.                                   *)
C22_Witness ==
  /\ last.op = "GenerateUploadURL"
  /\ last.ok
  /\ photos[last.id].mime = <<"application/pdf">>
  /\ \E p \in DOMAIN photos : photos[p].mime[1] = "image/png"

(* C23: GenerateUploadURL looks at the event's existence only: for a       *)
(* stored, non-deleted event that is inactive or closed it succeeds (when  *)
(* the presigner and the insert do) and inserts a placeholder row, while   *)
(* CreateSession for that event fails and inserts nothing.                 *)
C23_StatusPost ==
  /\ \A e \in LiveEvents :
       events[e].status \in {EventStatusInactive, EventStatusClosed} =>
         /\ \A p \in PhotoIds \ DOMAIN photos : GenerateUploadURLOK(e, p, TRUE)
         /\ \A t \in Tokens : ~CreateSessionOK(e, t)
  /\ (last'.op = "GenerateUploadURL" /\ last'.ok) =>
       /\ last'.id \in DOMAIN photos' \ DOMAIN photos
       /\ photos'[last'.id].size = 0
  /\ (/\ last'.op = "CreateSession"
      /\ last'.event \in LiveEvents
      /\ events[last'.event].status # EventStatusActive) =>
       ~last'.ok /\ sessions' = sessions

C23_UploadIgnoresStatus == [][C23_StatusPost]_vars

(* A GenerateUploadURL has succeeded for a closed event. *)
C23_Witness ==
  /\ last.op = "GenerateUploadURL"
  /\ last.ok
  /\ last.event \in LiveEvents
  /\ events[last.event].status = EventStatusClosed
  /\ photos[last.id].event = last.event

-----------------------------------------------------------------------------
(* Properties of the session cleanup (SpecSessions) *)

(* C24: CleanupExpiredSessions deletes exactly the sessions with           *)
(* expires_at <= now and leaves every session with expires_at > now as it  *)
(* was, so the results of ValidateSession for every token and of           *)
(* GetSessionsByEvent for every event are the same after it as before.     *)
C24_CleanupPost ==
  last'.op = "CleanupExpiredSessions" =>
    /\ DOMAIN sessions' = DOMAIN sessions
    /\ LiveSessions' = {t \in LiveSessions : sessions[t].expires > now}
    /\ \A t \in DOMAIN sessions :
         /\ sessions[t].expires > now => sessions'[t] = sessions[t]
         /\ sessions'[t] = [sessions[t] EXCEPT !.deleted = sessions'[t].deleted]
    /\ \A t \in Tokens : ValidateSession(t)' = ValidateSession(t)
    /\ \A e \in EventIds : GetSessionsByEvent(e)' = GetSessionsByEvent(e)

C24_CleanupChangesNoResult == [][C24_CleanupPost]_vars

(* After a CleanupExpiredSessions a session that expired at this very      *)
(* instant is deleted and a session with time left is valid.               *)
C24_Witness ==
  /\ last.op = "CleanupExpiredSessions"
  /\ \E t \in DOMAIN sessions : sessions[t].deleted /\ sessions[t].expires = now
  /\ \E t \in Tokens : ValidateSession(t).ok

-----------------------------------------------------------------------------
(* Properties of the photo routes across events (SpecCrossEvent) *)

(* C25: every photo row that a request let through by the middleware of    *)
(* /api/photos creates or changes belongs to the event of the session that *)
(* authenticated the request.                                              *)
C25_OwnEventPost ==
  (last'.op = "photoAPI" /\ last'.handled) =>
    \A p \in DOMAIN photos' :
      (p \notin DOMAIN photos \/ photos'[p] # photos[p]) =>
        photos'[p].event = last'.event_id

C25_WritesOnlyOwnEvent == [][C25_OwnEventPost]_vars

-----------------------------------------------------------------------------
(* Properties of concurrent RefreshSession calls (SpecConcurrentRefresh) *)

(* C26: a successful RevokeSession leaves the session deleted, and a       *)
(* deleted session stays deleted and invalid over every step, the late     *)
(* expiry write of a RefreshSession that validated before the revoke       *)
(* included: after the revoke ValidateSession of the token fails for good. *)
C26_RevokedPost ==
  /\ (last'.op = "RevokeSession" /\ last'.ok) =>
       /\ last'.token \in DOMAIN sessions'
       /\ sessions'[last'.token].deleted
  /\ \A t \in DOMAIN sessions :
       sessions[t].deleted =>
         /\ ~ValidateSession(t).ok
         /\ t \in DOMAIN sessions'
         /\ sessions'[t].deleted
         /\ ~(ValidateSession(t).ok)'

C26_RevokedStaysInvalid == [][C26_RevokedPost]_vars

(* A RefreshSession that validated before the revoke of its token has      *)
(* written its expiry after it, with time left on the session.             *)
C26_Witness ==
  /\ last.op = "RefreshSession"
  /\ last.ok
  /\ sessions[last.token].deleted
  /\ sessions[last.token].expires > now
  /\ ActiveEvent(sessions[last.token].event)

(* C27: a RefreshSession that returns success with expiry E leaves a       *)
(* session row with its token and expires_at = E in storage.               *)
C27_RefreshPost ==
  (last'.op = "RefreshSession" /\ last'.ok) =>
    /\ last'.token \in DOMAIN sessions'
    /\ sessions'[last'.token].expires = last'.expires

C27_SuccessMeansWritten == [][C27_RefreshPost]_vars

-----------------------------------------------------------------------------
(* Properties of the confirm (SpecConfirm) *)

(* C28: ConfirmUpload returns success whatever the photo ID; with no       *)
(* non-deleted row of that ID it changes nothing, and on a non-deleted row *)
(* it writes the given size over whatever size the row had, so the row     *)
(* holds the size of the last confirm.                                     *)
C28_ConfirmPost ==
  last'.op = "ConfirmUpload" =>
    /\ last'.ok
    /\ IF last'.id \in LivePhotos
         THEN /\ photos' = [photos EXCEPT ![last'.id].size = last'.size]
              /\ photos'[last'.id].size = last'.size
         ELSE photos' = photos

C28_ConfirmOverwritesOrNoOp == [][C28_ConfirmPost]_vars

(* A ConfirmUpload has returned success for a deleted photo, whose size is *)
(* still the other size, which an earlier confirm wrote.                   *)
C28_Witness ==
  /\ last.op = "ConfirmUpload"
  /\ last.ok
  /\ last.id \in DOMAIN photos
  /\ photos[last.id].deleted
  /\ photos[last.id].size \notin {0, last.size}

-----------------------------------------------------------------------------
(* Properties of the frontend auth store (SpecAuthStore) *)

(* C29: in every state of the auth store isAuthenticated is true exactly   *)
(* when session is not null, an authenticated store goes with the client   *)
(* token session.session_token, and a refreshSession whose request was     *)
(* rejected has ended with session null, isAuthenticated false and no      *)
(* client token.                                                           *)
C29_AuthStoreConsistent ==
  /\ authStore.isAuthenticated <=> authStore.session # NoSession
  /\ authStore.isAuthenticated => authToken = authStore.session.session_token
  /\ (last.op = "refreshSession" /\ ~last.ok) =>
       /\ authStore.session = NoSession
       /\ ~authStore.isAuthenticated
       /\ authToken = Nil

-----------------------------------------------------------------------------
(* Properties of the frontend upload page (SpecUploadPage) *)

(* The upload calls at an await that hold photo ID p. *)
C30_Holders(p) == {g \in DOMAIN uploadAttempts : uploadAttempts[g].photo_id = p}

(* C30: a file's status becomes "success" only in the step in which the    *)
(* confirmUpload of its call succeeds, for the photo ID that call got from *)
(* getUploadURL and after that call's PUT (a call waits for the PUT only   *)
(* with its placeholder row stored, and for the confirm only with its      *)
(* object stored); a failed step ends the call with status "error" and     *)
(* progress 0; a call always starts at getUploadURL; and a call that fails *)
(* after getUploadURL leaves its placeholder row, which no other call      *)
(* holds, with size 0, where it stays.                                     *)
C30_UploadPost ==
  /\ \A f \in DOMAIN uploadAttempts :
       LET call == uploadAttempts[f] IN
         /\ call.pc \in {"uploadFile", "confirmUpload"} =>
              /\ call.photo_id \in DOMAIN photos
              /\ photos[call.photo_id].key = call.key
              /\ C30_Holders(call.photo_id) = {f}
         /\ call.pc = "confirmUpload" => call.key \in objects
  /\ \A f \in DOMAIN uploadFiles' :
       (/\ uploadFiles'[f].status = "success"
        /\ ~(f \in DOMAIN uploadFiles /\ uploadFiles[f].status = "success")) =>
         /\ f \in DOMAIN uploadAttempts
         /\ uploadAttempts[f].pc = "confirmUpload"
         /\ last' = UploadStep("confirmUpload", f, TRUE, uploadAttempts[f].photo_id)
         /\ photos'[uploadAttempts[f].photo_id].size = UploadFileSize
  /\ (last'.op = "UploadPage" /\ ~last'.ok) =>
       /\ uploadFiles'[last'.file] = [status |-> "error", progress |-> 0]
       /\ last'.file \notin DOMAIN uploadAttempts'
  /\ (last'.op = "UploadPage" /\ last'.step = "start") =>
       /\ uploadFiles[last'.file].status \in {"pending", "error"}
       /\ uploadAttempts'[last'.file].pc = "getUploadURL"
       /\ uploadAttempts'[last'.file].photo_id = Nil
  /\ (last'.op = "UploadPage" /\ ~last'.ok /\ last'.step \in {"uploadFile", "confirmUpload"}) =>
       /\ last'.photo_id \in DOMAIN photos'
       /\ photos'[last'.photo_id].size = 0
       /\ ~photos'[last'.photo_id].deleted
  /\ \A p \in DOMAIN photos :
       (photos[p].size = 0 /\ C30_Holders(p) = {}) => photos'[p].size = 0

C30_SuccessOnlyAfterAllSteps == [][C30_UploadPost]_vars

(* A file is uploaded with its second call: the first call's placeholder   *)
(* row is left with size 0, held by no call, and the second call's row is  *)
(* confirmed.                                                              *)
C30_Witness ==
  /\ last = UploadStep("confirmUpload", "f1", TRUE, "p2")
  /\ uploadFiles["f1"].status = "success"
  /\ DOMAIN photos = {"p1", "p2"}
  /\ photos["p1"].size = 0 /\ C30_Holders("p1") = {}
  /\ photos["p2"].size = UploadFileSize
  /\ "f2" \notin DOMAIN uploadFiles

=============================================================================
